---- MODULE Spec2Model ----
(***************************************************************************)
(* Model of src/src/components/Schemabuilder.jsx: the field forest held in *)
(* React state by SchemaBuilder, the FieldRow handlers that rebuild it,    *)
(* and generateSchema, which projects it to the JSON preview.              *)
(*                                                                         *)
(* A keyName is a sequence of one-character strings, so that emptiness,    *)
(* blankness and the array-index form of a key are computed from the       *)
(* characters.  A JavaScript object is the sequence of its own enumerable  *)
(* properties in [[OwnPropertyKeys]] order, which is the order in which    *)
(* JSON.stringify writes them.                                             *)
(***************************************************************************)
EXTENDS Integers, Sequences, FiniteSets, TLC

VARIABLES
    fields,      \* SchemaBuilder's state: the committed forest (useState, line 116)
    rendered,    \* the forest of the last render, which every handler closes over
    jsonOutput,  \* generateSchema(fields) of the last render (line 140)
    lastOp,      \* the last handler that ran, with the forest it ran on
    prevOp,      \* the handler that ran before it
    ops,         \* handlers dispatched so far
    budget,      \* handlers the run dispatches at most
    now,         \* the last reading of Date.now(), in ms after ClockStart
    nextRef,     \* the next object identity the heap hands out
    input,       \* generateSchema's argument (projection specification)
    idx,         \* fields.forEach has handled input[1..idx]
    schema,      \* the schema object built so far by forEach
    pc           \* where the projection run is

vars == <<fields, rendered, jsonOutput, lastOp, prevOp, ops, budget, now,
          nextRef, input, idx, schema, pc>>

editorVars == <<fields, rendered, lastOp, prevOp, ops, budget, now, nextRef>>
projectVars == <<input, idx, schema, pc>>

-----------------------------------------------------------------------------
(* Bounds *)

\* handlers dispatched in one run of the editor
MaxOps == 3
\* handlers dispatched in one run of the editor under SpecEdit
MaxEditOps == 2
\* milliseconds Date.now() can advance past its first reading
MaxNow == 0
\* doubles per millisecond at the magnitude of Date.now()
RandLevels == 2
\* the first reading of Date.now(); it lies far above the literal ids 1..7
ClockStart == 8
\* longest field sequence handed to generateSchema
MaxProjLen == 2
\* longest children sequence of a field handed to generateSchema
MaxProjChildren == 1

-----------------------------------------------------------------------------
(* Key names *)

EmptyName == <<>>
BlankName == <<" ">>
ProtoName == <<"_", "_", "p", "r", "o", "t", "o", "_", "_">>

Digits == {"0", "1", "2", "3", "4", "5", "6", "7", "8", "9"}

DigitVal(c) ==
    CASE c = "0" -> 0 [] c = "1" -> 1 [] c = "2" -> 2 [] c = "3" -> 3
      [] c = "4" -> 4 [] c = "5" -> 5 [] c = "6" -> 6 [] c = "7" -> 7
      [] c = "8" -> 8 [] c = "9" -> 9

\* digit strings of equal length compare as their numbers do, digit by digit
RECURSIVE DigitsLess(_, _)
DigitsLess(a, b) ==
    IF Len(a) = 0 THEN FALSE
    ELSE \/ DigitVal(a[1]) < DigitVal(b[1])
         \/ a[1] = b[1] /\ DigitsLess(Tail(a), Tail(b))

\* numeric order of two canonical numeric strings
IndexLess(a, b) == Len(a) < Len(b) \/ (Len(a) = Len(b) /\ DigitsLess(a, b))

\* 2^32 - 2, the largest array index
MaxArrayIndex == <<"4", "2", "9", "4", "9", "6", "7", "2", "9", "4">>

\* A property key that is a canonical numeric string not above 2^32 - 2 is an
\* array index: such keys come first, in ascending numeric order.
IsArrayIndex(k) ==
    /\ Len(k) >= 1
    /\ \A i \in 1..Len(k) : k[i] \in Digits
    /\ (Len(k) > 1 => k[1] # "0")
    /\ ~IndexLess(MaxArrayIndex, k)

\* JavaScript truthiness of a string: any non-empty string, blank or not
Truthy(s) == Len(s) > 0

-----------------------------------------------------------------------------
(* JavaScript values of the projection *)

JsString(s) == [tag |-> "string", text |-> s, num |-> 0, props |-> <<>>]
JsNumber(n) == [tag |-> "number", text |-> "", num |-> n, props |-> <<>>]
JsObject(p) == [tag |-> "object", text |-> "", num |-> 0, props |-> p]

HasOwn(obj, k) == \E i \in 1..Len(obj) : obj[i].key = k
OwnIndex(obj, k) == CHOOSE i \in 1..Len(obj) : obj[i].key = k
GetOwn(obj, k) == obj[OwnIndex(obj, k)].val

\* number of leading array-index properties whose index is below that of k
IndexSlot(obj, k) ==
    Cardinality({i \in 1..Len(obj) :
        IsArrayIndex(obj[i].key) /\ IndexLess(obj[i].key, k)})

InsertAt(s, n, e) == SubSeq(s, 1, n) \o <<e>> \o SubSeq(s, n + 1, Len(s))

\* schema[k] = v on an ordinary object created by {}
PutProperty(obj, k, v) ==
    IF k = ProtoName
    THEN obj  \* Object.prototype's __proto__ setter runs: no own property is made
    ELSE IF HasOwn(obj, k)
    THEN [obj EXCEPT ![OwnIndex(obj, k)].val = v]
    ELSE IF IsArrayIndex(k)
    THEN InsertAt(obj, IndexSlot(obj, k), [key |-> k, val |-> v])
    ELSE Append(obj, [key |-> k, val |-> v])

RECURSIVE generateSchema(_)

\* the callback of fields.forEach
ForEachBody(sch, field) ==
    IF ~Truthy(field.keyName) THEN sch
    ELSE CASE field.type = "string" ->
                PutProperty(sch, field.keyName, JsString("String (default)"))
           [] field.type = "number" ->
                PutProperty(sch, field.keyName, JsNumber(0))
           [] field.type = "nested" ->
                PutProperty(sch, field.keyName,
                            JsObject(generateSchema(field.children)))
           [] OTHER -> sch

RECURSIVE SchemaAfter(_, _)
\* the schema object once forEach has handled the first n fields
SchemaAfter(fs, n) ==
    IF n = 0 THEN <<>> ELSE ForEachBody(SchemaAfter(fs, n - 1), fs[n])

generateSchema(fs) == SchemaAfter(fs, Len(fs))

\* the keys in the order JSON.stringify(jsonOutput, null, 2) writes them
SerializedKeys(obj) == [i \in 1..Len(obj) |-> obj[i].key]

-----------------------------------------------------------------------------
(* Field objects and the forest *)

\* Date.now() + Math.random(), rounded to a double.  At the clock's magnitude
\* a millisecond holds RandLevels doubles, so the value is counted in units of
\* 1/RandLevels: the integer ms lies at ms * RandLevels, and the fraction
\* Math.random() rounds to one of the levels 0..RandLevels, the last of which
\* is the integer ms + 1 itself.  Two ids are === exactly when these counts
\* agree, whichever readings of the clock they come from.
JsAdd(ms, level) == ms * RandLevels + level

\* the levels the fraction Math.random() can round to
RandomLevels == 0..RandLevels

\* a literal id such as 1 or 7
LiteralId(n) == JsAdd(n, 0)

Named(n, k, t, c) ==
    [id |-> LiteralId(n), keyName |-> k, type |-> t, children |-> c, ref |-> n]

createDefaultField(ms, rnd, ref) ==
    [id |-> JsAdd(ms, rnd), keyName |-> <<>>, type |-> "string",
     children |-> <<>>, ref |-> ref]

InitialFields ==
    << Named(1, <<"u","s","e","r">>, "nested",
         << Named(2, <<"n","a","m","e">>, "string", <<>>),
            Named(3, <<"a","g","e">>, "number", <<>>),
            Named(4, <<"a","d","d","r","e","s","s">>, "nested",
              << Named(5, <<"s","t","r","e","e","t">>, "string", <<>>),
                 Named(6, <<"z","i","p">>, "number", <<>>) >>) >>),
       Named(7, <<"p","r","o","d","u","c","t","I","d">>, "string", <<>>) >>

RECURSIVE Flatten(_)
\* every node of a forest, in document order
Flatten(fs) ==
    IF Len(fs) = 0 THEN <<>>
    ELSE <<fs[1]>> \o Flatten(fs[1].children) \o Flatten(Tail(fs))

\* the literal objects hold the first identities; the heap continues after them
FirstFreeRef == Len(Flatten(InitialFields)) + 1

Front(p) == SubSeq(p, 1, Len(p) - 1)

RECURSIVE NodeAt(_, _)
NodeAt(fs, p) ==
    IF Len(p) = 1 THEN fs[p[1]] ELSE NodeAt(fs[p[1]].children, Tail(p))

RECURSIVE Rows(_)
\* the FieldRow instances a render of fs mounts, each named by its path: the
\* children of a field are rendered only while its type is "nested"
Rows(fs) ==
    UNION { {<<i>>} \cup
            (IF fs[i].type = "nested"
             THEN {<<i>> \o q : q \in Rows(fs[i].children)}
             ELSE {})
          : i \in 1..Len(fs) }

\* { ...field, ...change }: a new object with the fields of change laid over
\* those of field
Spread(field, change, ref) ==
    [id |-> field.id,
     keyName |-> IF "keyName" \in DOMAIN change THEN change.keyName ELSE field.keyName,
     type |-> IF "type" \in DOMAIN change THEN change.type ELSE field.type,
     children |-> IF "children" \in DOMAIN change THEN change.children ELSE field.children,
     ref |-> ref]

MapReplace(fs, updated) ==
    [i \in 1..Len(fs) |-> IF fs[i].id = updated.id THEN updated ELSE fs[i]]

FilterOut(fs, fieldId) == SelectSeq(fs, LAMBDA f : f.id # fieldId)

-----------------------------------------------------------------------------
(* SchemaBuilder's handlers: each returns the value it passes to setFields *)

addField(fs, newField) == Append(fs, newField)

updateField(fs, updatedField) == MapReplace(fs, updatedField)

\* removeField with the filter's test turned round (=== for !==)
removeFieldKeepingTarget(fs, fieldId) == SelectSeq(fs, LAMBDA f : f.id = fieldId)

removeField(fs, fieldId) == FilterOut(fs, fieldId)

(* FieldRow's handlers: each returns the object it passes to onUpdate *)

\* handleUpdate that empties children when the type changes
handleUpdateClearingChildren(field, change, ref) ==
    Spread(field,
           IF "type" \in DOMAIN change
           THEN [type |-> change.type, children |-> <<>>]
           ELSE change,
           ref)

handleUpdate(field, change, ref) == Spread(field, change, ref)

addChildField(field, newChild, ref) ==
    Spread(field, [children |-> Append(field.children, newChild)], ref)

handleChildUpdate(field, updatedChild, ref) ==
    Spread(field, [children |-> MapReplace(field.children, updatedChild)], ref)

handleChildRemove(field, childId, ref) ==
    Spread(field, [children |-> FilterOut(field.children, childId)], ref)

RECURSIVE OnUpdate(_, _, _, _)
\* the onUpdate prop of the row at path p, called with updated: the parent
\* row's handleChildUpdate, whose own onUpdate is called in turn, and at a
\* root row SchemaBuilder's updateField.  Each level allocates one object.
OnUpdate(fs, p, updated, ref) ==
    IF Len(p) = 1
    THEN updateField(fs, updated)
    ELSE OnUpdate(fs, Front(p),
                  handleChildUpdate(NodeAt(fs, Front(p)), updated, ref), ref + 1)

\* the onRemove prop of the row at path p
OnRemove(fs, p, ref) ==
    IF Len(p) = 1
    THEN removeField(fs, NodeAt(fs, p).id)
    ELSE OnUpdate(fs, Front(p),
                  handleChildRemove(NodeAt(fs, Front(p)), NodeAt(fs, p).id, ref),
                  ref + 1)

-----------------------------------------------------------------------------
(* The editor *)

\* what the Field Name input can deliver to onChange
KeyInputs == {EmptyName, <<"u","s","e","r">>}
\* the SelectItem values
TypeInputs == {"string", "number", "nested"}

\* the record of a handler call: its row (path), the forest its closure held
\* (before), the committed forest at that moment (prior), the object it built
\* or removed (arg) and the heap's next identity when it started
NoField == createDefaultField(0, 0, 0)
NoOp == [kind |-> "none", path |-> <<>>, before |-> <<>>, prior |-> <<>>,
         arg |-> NoField, heap |-> 0]

Op(k, p, a) ==
    [kind |-> k, path |-> p, before |-> rendered, prior |-> fields, arg |-> a,
     heap |-> nextRef]

\* a handler runs to its setFields(next) call; React renders later
Dispatch(next, op, allocated) ==
    /\ ops < budget
    /\ fields' = next
    /\ prevOp' = lastOp
    /\ lastOp' = op
    /\ ops' = ops + 1
    /\ nextRef' = nextRef + allocated
    /\ UNCHANGED <<rendered, jsonOutput, budget>>

\* the Add Field button
AddField ==
    \E t \in now..MaxNow, rnd \in RandomLevels :
        LET new == createDefaultField(ClockStart + t, rnd, nextRef) IN
        /\ Dispatch(addField(rendered, new), Op("addField", <<>>, new), 1)
        /\ now' = t

\* the Add Nested Field button of a row whose type is "nested"
AddChildField ==
    \E p \in Rows(rendered), t \in now..MaxNow, rnd \in RandomLevels :
        LET field == NodeAt(rendered, p)
            new == createDefaultField(ClockStart + t, rnd, nextRef)
        IN
        /\ field.type = "nested"
        /\ Dispatch(OnUpdate(rendered, p, addChildField(field, new, nextRef + 1),
                             nextRef + 2),
                    Op("addChild", p, new), Len(p) + 1)
        /\ now' = t

\* the Field Name input of a row
ChangeKeyName ==
    \E p \in Rows(rendered), k \in KeyInputs :
        LET updated == handleUpdate(NodeAt(rendered, p), [keyName |-> k], nextRef) IN
        /\ Dispatch(OnUpdate(rendered, p, updated, nextRef + 1),
                    Op("keyName", p, updated), Len(p))
        /\ UNCHANGED now

\* the type Select of a row
ChangeType ==
    \E p \in Rows(rendered), t \in TypeInputs :
        LET updated == handleUpdate(NodeAt(rendered, p), [type |-> t], nextRef) IN
        /\ Dispatch(OnUpdate(rendered, p, updated, nextRef + 1),
                    Op("type", p, updated), Len(p))
        /\ UNCHANGED now

\* the delete button of a row
RemoveRow ==
    \E p \in Rows(rendered) :
        /\ Dispatch(OnRemove(rendered, p, nextRef),
                    Op("remove", p, NodeAt(rendered, p)), Len(p) - 1)
        /\ UNCHANGED now

\* React re-renders SchemaBuilder with the committed state: the handlers of
\* every row now close over it, and the preview is recomputed
Render ==
    /\ rendered # fields
    /\ rendered' = fields
    /\ jsonOutput' = generateSchema(fields)
    /\ UNCHANGED <<fields, lastOp, prevOp, ops, budget, now, nextRef>>

EditorInit(n) ==
    /\ budget = n
    /\ fields = InitialFields
    /\ rendered = InitialFields
    /\ jsonOutput = generateSchema(InitialFields)
    /\ lastOp = NoOp
    /\ prevOp = NoOp
    /\ ops = 0
    /\ now = 0
    /\ nextRef = FirstFreeRef

ProjectIdle ==
    /\ input = <<>>
    /\ idx = 0
    /\ schema = <<>>
    /\ pc = "idle"

Init == EditorInit(MaxOps) /\ ProjectIdle

Next ==
    \/ AddField /\ UNCHANGED projectVars
    \/ AddChildField /\ UNCHANGED projectVars
    \/ ChangeKeyName /\ UNCHANGED projectVars
    \/ ChangeType /\ UNCHANGED projectVars
    \/ RemoveRow /\ UNCHANGED projectVars
    \/ Render /\ UNCHANGED projectVars

Spec == Init /\ [][Next]_vars

\* the same editor, on a run of MaxEditOps handlers
EditInit == EditorInit(MaxEditOps) /\ ProjectIdle

SpecEdit == EditInit /\ [][Next]_vars

-----------------------------------------------------------------------------
(* The field sequences handed to the projection run *)

ProjNames == {EmptyName, BlankName, <<"b">>, <<"1">>, ProtoName}
ProjTypes == {"string", "number", "nested", "boolean"}
ProjChildTypes == {"string", "number"}

SeqsUpTo(S, n) == UNION {[1..m -> S] : m \in 0..n}

ProjLeaves == {Named(0, k, t, <<>>) : k \in ProjNames, t \in ProjChildTypes}
ProjFields ==
    {Named(0, k, t, c) :
        k \in ProjNames, t \in ProjTypes, c \in SeqsUpTo(ProjLeaves, MaxProjChildren)}
ProjInputs == SeqsUpTo(ProjFields, MaxProjLen)

-----------------------------------------------------------------------------
(* The projection run: generateSchema(input), one forEach callback a step *)

ProjectInit ==
    /\ fields = <<>>
    /\ rendered = <<>>
    /\ jsonOutput = <<>>
    /\ lastOp = NoOp
    /\ prevOp = NoOp
    /\ ops = 0
    /\ budget = 0
    /\ now = 0
    /\ nextRef = 0
    /\ input \in ProjInputs
    /\ idx = 0
    /\ schema = <<>>
    /\ pc = "forEach"

ForEachStep ==
    /\ pc = "forEach"
    /\ idx < Len(input)
    /\ schema' = ForEachBody(schema, input[idx + 1])
    /\ idx' = idx + 1
    /\ UNCHANGED <<input, pc, jsonOutput>>

ReturnSchema ==
    /\ pc = "forEach"
    /\ idx = Len(input)
    /\ jsonOutput' = schema
    /\ pc' = "returned"
    /\ UNCHANGED <<input, idx, schema>>

ProjectNext ==
    \/ ForEachStep /\ UNCHANGED editorVars
    \/ ReturnSchema /\ UNCHANGED editorVars

SpecProject == ProjectInit /\ [][ProjectNext]_vars

-----------------------------------------------------------------------------
(* Vocabulary of the properties *)

RECURSIVE Strip(_)
\* a forest without its object identities: its content
Strip(fs) ==
    [i \in 1..Len(fs) |->
        [id |-> fs[i].id, keyName |-> fs[i].keyName, type |-> fs[i].type,
         children |-> Strip(fs[i].children)]]

IdsOf(fs) == {Flatten(fs)[i].id : i \in 1..Len(Flatten(fs))}

UniqueIds(fs) ==
    \A i, j \in 1..Len(Flatten(fs)) :
        i # j => Flatten(fs)[i].id # Flatten(fs)[j].id

RemoveIndex(s, n) == SubSeq(s, 1, n - 1) \o SubSeq(s, n + 1, Len(s))

RECURSIVE ReplaceAt(_, _, _)
\* fs with the node at path p replaced by new, nothing else touched
ReplaceAt(fs, p, new) ==
    IF Len(p) = 1 THEN [fs EXCEPT ![p[1]] = new]
    ELSE [fs EXCEPT ![p[1]].children = ReplaceAt(@, Tail(p), new)]

RECURSIVE DeleteAt(_, _)
\* fs without the node at path p and its subtree, nothing else touched
DeleteAt(fs, p) ==
    IF Len(p) = 1 THEN RemoveIndex(fs, p[1])
    ELSE [fs EXCEPT ![p[1]].children = DeleteAt(@, Tail(p))]

\* every id the editor can ever hold
AllIds ==
    {LiteralId(n) : n \in 1..7} \cup
    {JsAdd(ClockStart + t, r) : t \in 0..MaxNow, r \in RandomLevels}

Probe(i) == [NoField EXCEPT !.id = i, !.keyName = <<"p">>]

IsUpdate(op) == op.kind \in {"keyName", "type"}

RECURSIVE KeyPaths(_)
\* the key paths of a projected object, each a sequence of keys from the root
KeyPaths(obj) ==
    UNION { {<<obj[i].key>>} \cup
            {<<obj[i].key>> \o q : q \in KeyPaths(obj[i].val.props)}
          : i \in 1..Len(obj) }

Recognised(t) == t \in {"string", "number", "nested"}

RECURSIVE EmittedPaths(_, _)
\* the key paths the assignments of generateSchema(fs) write, below prefix
EmittedPaths(fs, prefix) ==
    UNION { IF Truthy(fs[i].keyName) /\ Recognised(fs[i].type)
            THEN {prefix \o <<fs[i].keyName>>} \cup
                 (IF fs[i].type = "nested"
                  THEN EmittedPaths(fs[i].children, prefix \o <<fs[i].keyName>>)
                  ELSE {})
            ELSE {}
          : i \in 1..Len(fs) }

RECURSIVE LevelAt(_, _)
\* the sequence that holds the node at path p
LevelAt(fs, p) ==
    IF Len(p) = 1 THEN fs ELSE LevelAt(fs[p[1]].children, Tail(p))

\* the keyNames of the nodes along path q
NamesAlong(fs, q) == [j \in 1..Len(q) |-> NodeAt(fs, SubSeq(q, 1, j)).keyName]

\* the key paths of generateSchema(fs) that the node at p and its descendants write
Contributed(fs, p) ==
    IF \E j \in 1..(Len(p) - 1) : ~Truthy(NamesAlong(fs, p)[j])
    THEN {}
    ELSE EmittedPaths(<<NodeAt(fs, p)>>, NamesAlong(fs, Front(p)))
             \cap KeyPaths(generateSchema(fs))

\* neither the node at p nor an ancestor of it shares its keyName with
\* another field of its own sequence
NameUnshared(fs, p) ==
    \A j \in 1..Len(p) :
        LET q == SubSeq(p, 1, j)
            level == LevelAt(fs, q)
        IN \A i \in 1..Len(level) : i # q[j] => level[i].keyName # level[q[j]].keyName

Whitespace == {" "}
IsBlank(k) == \A i \in 1..Len(k) : k[i] \in Whitespace

-----------------------------------------------------------------------------
(* Properties of the editor *)

\* C1: an update dispatched from the row of a node, at any depth, leaves the
\* forest the handler ran on with that node replaced by updatedField at the
\* same index of the same sequence and nothing else changed; updateField
\* with an id no node has leaves the forest unchanged.
UpdateReplacesTarget ==
    /\ IsUpdate(lastOp) =>
          Strip(fields) = Strip(ReplaceAt(lastOp.before, lastOp.path, lastOp.arg))
    /\ \A i \in AllIds \ IdsOf(fields) : updateField(fields, Probe(i)) = fields

\* C2: a removal dispatched from the row of a node, at any depth, leaves the
\* forest the handler ran on without that node and its subtree and nothing
\* else changed; removeField with an id no node has leaves the forest unchanged.
RemoveDeletesTarget ==
    /\ lastOp.kind = "remove" =>
          Strip(fields) = Strip(DeleteAt(lastOp.before, lastOp.path))
    /\ \A i \in AllIds \ IdsOf(fields) : removeField(fields, i) = fields

\* C3: no two nodes of the forest, at any depth, have the same id.
IdsUnique == UniqueIds(fields)

RECURSIVE OffPathKept(_, _, _, _)
\* a is b rebuilt along path p only: every other element of every sequence on
\* the way is the identical object, and each ancestor on the way is a new one
OffPathKept(b, a, p, op) ==
    IF Len(p) = 1
    THEN IF op.kind = "remove"
         THEN a = RemoveIndex(b, p[1])
         ELSE /\ Len(a) = Len(b)
              /\ \A i \in 1..Len(b) : i # p[1] => a[i] = b[i]
    ELSE /\ Len(a) = Len(b)
         /\ \A i \in 1..Len(b) : i # p[1] => a[i] = b[i]
         /\ a[p[1]].ref >= op.heap
         /\ OffPathKept(b[p[1]].children, a[p[1]].children, Tail(p), op)

\* C8: an update or a removal at depth N rebuilds only the ancestors on the
\* path from the target to the root; every node off that path is the very
\* same object as before, with the same content.
OffPathNodesKept ==
    (IsUpdate(lastOp) \/ lastOp.kind = "remove") =>
        OffPathKept(lastOp.before, fields, lastOp.path, lastOp)

\* C9: every handler runs on the forest the preceding handler produced, also
\* when it is dispatched before the editor has re-rendered.
MutationSeesPreceding ==
    lastOp.kind # "none" => lastOp.before = lastOp.prior

\* C7 as stated: after a Nested field is removed, the projection holds none of
\* the key paths the field and its descendants contributed before.
RemovedKeysGone ==
    (lastOp.kind = "remove" /\ lastOp.arg.type = "nested") =>
        Contributed(lastOp.before, lastOp.path)
            \cap KeyPaths(generateSchema(fields)) = {}

\* C7 amended: after a Nested field is removed, the projection holds none of
\* the key paths the field and its descendants contributed before, provided
\* neither the field nor any of its ancestors shares its keyName with another
\* field of its own sequence.
RemovedKeysGoneUnlessNameShared ==
    (/\ lastOp.kind = "remove"
     /\ lastOp.arg.type = "nested"
     /\ NameUnshared(lastOp.before, lastOp.path)) =>
        Contributed(lastOp.before, lastOp.path)
            \cap KeyPaths(generateSchema(fields)) = {}

\* a Nested field whose own key and whose descendants' keys were in the
\* projection has been removed
RemovedNestedWithKeys ==
    /\ lastOp.kind = "remove"
    /\ lastOp.arg.type = "nested"
    /\ NameUnshared(lastOp.before, lastOp.path)
    /\ \E kp \in Contributed(lastOp.before, lastOp.path) : Len(kp) > Len(lastOp.path)

\* the handler op turned a field that was Nested into a String or a Number
TurnedPrimitive(op) ==
    /\ op.kind = "type"
    /\ NodeAt(op.before, op.path).type = "nested"
    /\ op.arg.type \in {"string", "number"}

\* the handler op turned back to Nested the field that the handler was had
\* turned primitive
TurnedBack(was, op) ==
    /\ TurnedPrimitive(was)
    /\ op.kind = "type"
    /\ op.path = was.path
    /\ op.arg.id = was.arg.id
    /\ op.arg.type = "nested"

Placeholder(t) == IF t = "string" THEN JsString("String (default)") ELSE JsNumber(0)

\* C10: turning a Nested field into a String or a Number keeps its children,
\* and the projection has the placeholder for it and none of its children's
\* keys; turning it back to Nested as the very next handler makes the
\* projection what it was before the first change.
TypeRoundTrip ==
    /\ TurnedPrimitive(lastOp) =>
          LET n == NodeAt(fields, lastOp.path)
              own == generateSchema(<<n>>)
          IN /\ n.type = lastOp.arg.type
             /\ n.children = NodeAt(lastOp.before, lastOp.path).children
             /\ own = generateSchema(<<[n EXCEPT !.children = <<>>]>>)
             /\ \A i \in 1..Len(own) : own[i].val = Placeholder(n.type)
    /\ TurnedBack(prevOp, lastOp) =>
          generateSchema(fields) = generateSchema(prevOp.before)

\* a named Nested field with children was turned primitive and back
TurnedBackWithChildren ==
    /\ TurnedBack(prevOp, lastOp)
    /\ Truthy(lastOp.arg.keyName)
    /\ Len(lastOp.arg.children) > 0
    /\ KeyPaths(generateSchema(fields)) # {}

-----------------------------------------------------------------------------
(* The handlers on a forest whose ids are distinct *)

\* UpdateReplacesTarget, for a handler that ran on distinct ids
UpdateReplacesTargetOfDistinctIds ==
    (IsUpdate(lastOp) /\ UniqueIds(lastOp.before)) =>
        Strip(fields) = Strip(ReplaceAt(lastOp.before, lastOp.path, lastOp.arg))

\* RemoveDeletesTarget, for a handler that ran on distinct ids
RemoveDeletesTargetOfDistinctIds ==
    (lastOp.kind = "remove" /\ UniqueIds(lastOp.before)) =>
        Strip(fields) = Strip(DeleteAt(lastOp.before, lastOp.path))

\* OffPathNodesKept, for a handler that ran on distinct ids
OffPathNodesKeptOfDistinctIds ==
    ((IsUpdate(lastOp) \/ lastOp.kind = "remove") /\ UniqueIds(lastOp.before)) =>
        OffPathKept(lastOp.before, fields, lastOp.path, lastOp)

\* the absent-id halves of UpdateReplacesTarget and RemoveDeletesTarget
AbsentIdIsNoOp ==
    \A i \in AllIds \ IdsOf(fields) :
        /\ updateField(fields, Probe(i)) = fields
        /\ removeField(fields, i) = fields

-----------------------------------------------------------------------------
(* Properties of the projection *)

Emits(f) == Truthy(f.keyName) /\ Recognised(f.type)

UserExample ==
    << Named(1, <<"u","s","e","r">>, "nested",
         << Named(2, <<"n","a","m","e">>, "string", <<>>),
            Named(3, <<"a","g","e">>, "number", <<>>) >>) >>

UserExampleJson ==
    << [key |-> <<"u","s","e","r">>,
        val |-> JsObject(
          << [key |-> <<"n","a","m","e">>, val |-> JsString("String (default)")],
             [key |-> <<"a","g","e">>, val |-> JsNumber(0)] >>)] >>

\* C4: the forEach callback maps a field with a non-empty keyName to
\* keyName -> "String (default)" (string), keyName -> 0 (number) or
\* keyName -> generateSchema(children) (nested), and a field of any other
\* type adds no key; user{name, age} projects to the object of the example.
EachFieldMapped ==
    /\ idx > 0 =>
          LET f == input[idx]
              prev == SchemaAfter(input, idx - 1)
          IN Truthy(f.keyName) =>
               CASE f.type = "string" ->
                      /\ HasOwn(schema, f.keyName)
                      /\ GetOwn(schema, f.keyName) = JsString("String (default)")
                 [] f.type = "number" ->
                      /\ HasOwn(schema, f.keyName)
                      /\ GetOwn(schema, f.keyName) = JsNumber(0)
                 [] f.type = "nested" ->
                      /\ HasOwn(schema, f.keyName)
                      /\ GetOwn(schema, f.keyName) = JsObject(generateSchema(f.children))
                 [] OTHER -> schema = prev
    /\ generateSchema(UserExample) = UserExampleJson

\* C5: a field with an empty or blank keyName adds no key, whatever its type,
\* and no key of the returned object, at any depth, is empty or blank.
BlankNamesSkipped ==
    /\ (idx > 0 /\ IsBlank(input[idx].keyName)) =>
          schema = SchemaAfter(input, idx - 1)
    /\ pc = "returned" =>
          \A kp \in KeyPaths(jsonOutput) : \A i \in 1..Len(kp) : ~IsBlank(kp[i])

\* the last field of fs that writes key k
LastWriter(fs, k) ==
    CHOOSE i \in 1..Len(fs) :
        /\ Emits(fs[i]) /\ fs[i].keyName = k
        /\ \A j \in (i + 1)..Len(fs) : ~(Emits(fs[j]) /\ fs[j].keyName = k)

RECURSIVE KeysFollowFields(_, _)
\* whenever one key is serialized before another, a field writing the first
\* stands before a field writing the second; the same in every nested object
KeysFollowFields(fs, obj) ==
    /\ \A a, b \in 1..Len(obj) :
          a < b => \E i, j \in 1..Len(fs) :
                      /\ i < j
                      /\ Emits(fs[i]) /\ fs[i].keyName = SerializedKeys(obj)[a]
                      /\ Emits(fs[j]) /\ fs[j].keyName = SerializedKeys(obj)[b]
    /\ \A a \in 1..Len(obj) :
          obj[a].val.tag = "object" =>
              KeysFollowFields(fs[LastWriter(fs, obj[a].key)].children,
                               obj[a].val.props)

\* C6: the keys of the returned object are serialized in the order in which
\* the fields with a non-empty keyName and a recognised type stand in the
\* sequence, at the root and in every nested object.
KeysInFieldOrder ==
    pc = "returned" => KeysFollowFields(input, jsonOutput)

====
